---- MODULE Spec2Model ----
(***************************************************************************)
(* A model of src/Safe.h: SpinLock, ScopedLock, SharedPtr with its control *)
(* block detail::SharedPtrState, and Atomic<T>.                            *)
(*                                                                         *)
(* Execution contexts run the member functions concurrently.  Every        *)
(* _Interlocked* intrinsic is one atomic step; the steps of one member     *)
(* function that lie between two intrinsics touch only the caller's own    *)
(* object and are folded into the step of the intrinsic that follows.      *)
(*                                                                         *)
(* Three specifications share the variables:                               *)
(*   Spec       - SharedPtr / SharedPtrState                               *)
(*   SpecLock   - SpinLock and ScopedLock                                  *)
(*   SpecAtomic - Atomic<T>                                                *)
(***************************************************************************)
EXTENDS Integers, FiniteSets, Sequences

(* ------------------------------ bounds -------------------------------- *)

\* execution contexts
NCtx == 2
\* SharedPtr objects the callers declare (operator= adds one temporary per context)
MaxHandles == 2
\* lock() calls made on the SpinLock over a run, directly or by a guard
MaxLockCalls == 4
\* ScopedLock guards one context nests
MaxNest == 2
\* distinct non-null pointers the callers pass to Atomic<T>
MaxPtr == 2
\* the largest byte size a caller passes to a constructor
MaxSize == 17
\* the largest extent K of an array payload T[K]
MaxExtent == 2
\* the largest sizeof(ElementType) of a UniquePtr payload
MaxElemSize == 2

Ctx == 1..NCtx
Handles == 1..MaxHandles
\* every declared handle can construct a control block of its own
Blocks == 1..MaxHandles

\* nullptr
Null == 0

\* the one SpinLock the contexts share, as a Lock*
TheLock == 1

\* pointers a caller can hold in a T*
Ptrs == 0..MaxPtr
\* (void*)&this->data, the address of the Atomic's own member
SlotAddr == MaxPtr + 1

\* SharedPtr temp(other) of operator=, one per context
Temp(t) == MaxHandles + t
AllHandles == 1..(MaxHandles + NCtx)
IsTemp(h) == h > MaxHandles

VARIABLES
  \* ---- SharedPtr<T> ----
  hstate,       \* SharedPtr::state of every handle: a block or Null
  hstatus,      \* lifetime of every handle: none, ctor, live, dying, dead
  ref_count,    \* SharedPtrState::ref_count of every block
  block,        \* storage of every block: unalloc, live, freed
  payload,      \* object behind SharedPtrState::data: none, alive, destroyed
  pc,           \* where every context is inside a SharedPtr member function
  cur,          \* the handle the context's member function runs on
  src,          \* the handle bound to `other` while a copy reads it
  dtorRuns,     \* per block: how often the payload was deleted
  releases,     \* per block: how often the block's storage was released
  strayRelease, \* per block: released by a context other than zeroBy
  zeroReports,  \* per block: how often deref() returned true
  zeroBy,       \* per block: the context whose deref() returned true and
                \* which has not released the block yet
  lateDeref,    \* per block: deref() was called after a deref() returned true
  uaf,          \* a ref()/deref()/ptr() touched released storage
  stateBytes,   \* per block: the bytes asked of the allocator for its storage
  asg,          \* per context: << >> or <<the operator= it is running: its
                \* object h, its argument g, the blocks x of h and y of g
                \* when it was called, the changes it has made to each block's count,
                \* whether its deref() returned true and whether it has
                \* released a block>>
  nullDeref,    \* "no", or the place where a null pointer was dereferenced
                \* or storage was overrun; what the program does from there
                \* on is undefined and is not modelled
  \* ---- SpinLock, ScopedLock ----
  lock_ref_count, \* SpinLock::ref_count
  held,         \* per context: lock() calls that returned to it, less its unlock() calls
  direct,       \* per context: those of them it made itself, not through a guard
  gstack,       \* per context: its live ScopedLock objects, innermost last
  lastDead,     \* << >> or <<the ScopedLock destroyed last, as it was then>>
  unwind,       \* per context: an early return or failure is leaving its scopes
  lockCalls,    \* lock() calls on the SpinLock that returned
  unlockCalls,  \* unlock() calls on the SpinLock that returned
  nullCall,     \* a virtual call was made through a null Lock*
  calling,      \* per context: it has called lock() and the call has not returned
  lastRef,      \* << >> or <<what the latest SpinLock::ref() returned>>
  \* ---- Atomic<T> ----
  data,         \* Atomic::data
  initial,      \* the value the Atomic was constructed with
  exchanged,    \* the values passed to exchange() so far
  lastXchg,     \* << >> or <<the value passed to the latest exchange()>>
  lastLoad,     \* per context: << >> or <<what its latest load() returned>>
  loadAfter,    \* per context: lastXchg as it was at that load()
  \* ---- UniquePtr<T> ----
  uq            \* one UniquePtr object: its lifetime, its T, how it was
                \* constructed, its data member, and what its constructor,
                \* destructor and accessors have done so far

sharedVars == <<hstate, hstatus, ref_count, block, payload, pc, cur, src,
                dtorRuns, releases, strayRelease, zeroReports, zeroBy,
                lateDeref, uaf, stateBytes, asg>>

lockVars == <<lock_ref_count, held, direct, gstack, lastDead, unwind,
              lockCalls, unlockCalls, nullCall, calling, lastRef>>

atomicVars == <<data, initial, exchanged, lastXchg, lastLoad, loadAfter>>

uniqueVars == <<uq>>

vars == <<sharedVars, nullDeref, lockVars, atomicVars, uniqueVars>>

(* ------------------------- hardware atomics --------------------------- *)

\* _InterlockedIncrement64: the new value
InterlockedIncrement64(c) == c + 1

\* _InterlockedDecrement64: the new value
InterlockedDecrement64(c) == c - 1

\* _InterlockedExchangeAdd64 on a counter holding c: <<the value it holds
\* afterwards, the returned value>>
InterlockedExchangeAdd64(c, v) == <<c + v, c>>

(* ----------------------- detail::SharedPtrState ----------------------- *)

\* a ref() that loses its increment
RefNoIncrement(c) == c
\* ref(): the count after the call
StateRef(c) == InterlockedIncrement64(c)

\* deref(): the count after the call
StateDerefCount(c) == InterlockedDecrement64(c)

\* a deref() that tests the value before the decrement
DerefOldValue(c) == c = 0
\* deref(): the returned bool
StateDeref(c) == InterlockedDecrement64(c) = 0

\* ~SharedPtrState(): the count after its own decrement
StateDtorCount(c) == InterlockedDecrement64(c)

\* ~SharedPtrState(): TRUE when it goes on to delete the payload
StateDtorDeletes(c) == ~(InterlockedDecrement64(c) # 0)

\* detail::swap on two State* values: <<a, b>> after the call
Swap(a, b) ==
  LET temp == a
      a1 == b
      b1 == temp
  IN <<a1, b1>>

(* ----------------------------- allocation ----------------------------- *)

\* sizeof(detail::SharedPtrState<T>): the i64 ref_count and the data pointer
SizeofState == 16

\* the byte sizes a caller passes to a constructor
Sizes == 0..MaxSize

\* operator new(size_t, size_t size, bool paged), the allocation function of
\* `new (size, paged) X`: the bytes it asks of the allocator are those of
\* its size argument, as in allocate(sizeInBytes, residencyClass)
Allocate(implicit, size) == size

\* new (sizeof(State), paged) State(paged): the bytes asked for the block
StateRequestTyped == Allocate(SizeofState, SizeofState)

\* new (size, paged) State(size, paged): the bytes asked for the block
StateRequestSized(size) == Allocate(SizeofState, size)

(* ----------------------------- SharedPtr ------------------------------ *)

\* the allocator hands out storage that was never handed out before
FreshBlock == CHOOSE b \in Blocks : block[b] = "unalloc" /\ \A c \in Blocks : block[c] = "unalloc" => b <= c

\* h is the object of a member function that is still running
IsTarget(h) == \E t \in Ctx : cur[t] = h \/ (asg[t] # << >> /\ asg[t][1].h = h)
\* h is bound to the reference `other` of a copy that is still running
IsSource(h) == \E t \in Ctx : src[t] = h \/ (asg[t] # << >> /\ asg[t][1].g = h)

\* callers do not run two member functions on one handle at once, and keep
\* the argument of a copy or an assignment alive and unmodified until the
\* call has returned
Free(h) == ~IsTarget(h) /\ ~IsSource(h)
Readable(h) == hstatus[h] = "live" /\ ~IsTarget(h)

\* handles are declared in the order of their numbers
Undeclared(h) ==
  /\ ~IsTemp(h)
  /\ hstatus[h] = "none"
  /\ \A k \in Handles : k < h => hstatus[k] # "none"

InitShared ==
  /\ hstate = [h \in AllHandles |-> Null]
  /\ hstatus = [h \in AllHandles |-> "none"]
  /\ ref_count = [b \in Blocks |-> 0]
  /\ block = [b \in Blocks |-> "unalloc"]
  /\ payload = [b \in Blocks |-> "none"]
  /\ pc = [t \in Ctx |-> "idle"]
  /\ cur = [t \in Ctx |-> 0]
  /\ src = [t \in Ctx |-> 0]
  /\ dtorRuns = [b \in Blocks |-> 0]
  /\ releases = [b \in Blocks |-> 0]
  /\ strayRelease = [b \in Blocks |-> FALSE]
  /\ zeroReports = [b \in Blocks |-> 0]
  /\ zeroBy = [b \in Blocks |-> 0]
  /\ lateDeref = [b \in Blocks |-> FALSE]
  /\ uaf = FALSE
  /\ stateBytes = [b \in Blocks |-> 0]
  /\ asg = [t \in Ctx |-> << >>]

\* SharedPtr(const bool&) / SharedPtr(const size_t&, const bool&): the
\* allocator returns storage for the block, or nullptr.  On nullptr the
\* new-expression either yields nullptr without running the State constructor
\* or runs it on address 0, depending on the allocation function's declaration.
\* With storage of fewer bytes than a State the constructor's writes of
\* ref_count and data run past the end of it.
ConstructState(t, h, allocated, outcome, bytes) ==
  /\ nullDeref = "no"
  /\ UNCHANGED <<lockVars, atomicVars, uniqueVars>>
  /\ UNCHANGED asg
  /\ pc[t] = "idle"
  /\ Undeclared(h)
  /\ IF allocated
       THEN /\ \E b \in Blocks : block[b] = "unalloc"
            /\ outcome = "null"
            /\ LET b == FreshBlock IN
                 /\ block' = [block EXCEPT ![b] = "live"]
                 /\ stateBytes' = [stateBytes EXCEPT ![b] = bytes]
                 /\ IF bytes < SizeofState
                      THEN /\ nullDeref' = "SharedPtrState overrun"
                           /\ UNCHANGED <<ref_count, payload, hstate, hstatus>>
                      ELSE /\ ref_count' = [ref_count EXCEPT ![b] = 1]
                           /\ payload' = [payload EXCEPT ![b] = "alive"]
                           /\ hstate' = [hstate EXCEPT ![h] = b]
                           /\ hstatus' = [hstatus EXCEPT ![h] = "live"]
                           /\ UNCHANGED nullDeref
       ELSE /\ UNCHANGED <<block, ref_count, payload, stateBytes>>
            /\ IF outcome = "null"
                 THEN /\ hstate' = [hstate EXCEPT ![h] = Null]
                      /\ hstatus' = [hstatus EXCEPT ![h] = "live"]
                      /\ UNCHANGED nullDeref
                 ELSE /\ nullDeref' = "SharedPtrState"
                      /\ UNCHANGED <<hstate, hstatus>>
  /\ UNCHANGED <<pc, cur, src, dtorRuns, releases, strayRelease,
                 zeroReports, zeroBy, lateDeref, uaf>>

\* SharedPtr(const bool& paged)
Construct(t, h, allocated, outcome) ==
  ConstructState(t, h, allocated, outcome, StateRequestTyped)

\* SharedPtr(const size_t& size, const bool& paged)
ConstructSized(t, h, size, allocated, outcome) ==
  ConstructState(t, h, allocated, outcome, StateRequestSized(size))

\* the ref() of a copy constructor on the handle x it is constructing
RefStep(x) ==
  LET b == hstate[x] IN
    IF b = Null
      THEN UNCHANGED <<ref_count, uaf>>
      ELSE /\ ref_count' = [ref_count EXCEPT ![b] = StateRef(ref_count[b])]
           /\ uaf' = (uaf \/ block[b] # "live")

\* SharedPtr(const SharedPtr& other): state{ other.state }
CopyBegin(t, h, g) ==
  /\ nullDeref = "no"
  /\ UNCHANGED <<lockVars, atomicVars, uniqueVars>>
  /\ UNCHANGED <<stateBytes, asg>>
  /\ pc[t] = "idle"
  /\ Undeclared(h)
  /\ Readable(g)
  /\ hstate' = [hstate EXCEPT ![h] = hstate[g]]
  /\ hstatus' = [hstatus EXCEPT ![h] = "ctor"]
  /\ pc' = [pc EXCEPT ![t] = "copy_ref"]
  /\ cur' = [cur EXCEPT ![t] = h]
  /\ src' = [src EXCEPT ![t] = g]
  /\ UNCHANGED <<ref_count, block, payload, dtorRuns, releases, strayRelease,
                 zeroReports, zeroBy, lateDeref, uaf, nullDeref>>

\* SharedPtr(const SharedPtr& other): if (state != nullptr) state->ref()
CopyRef(t) ==
  /\ nullDeref = "no"
  /\ UNCHANGED <<lockVars, atomicVars, uniqueVars>>
  /\ UNCHANGED <<stateBytes, asg>>
  /\ pc[t] = "copy_ref"
  /\ RefStep(cur[t])
  /\ hstatus' = [hstatus EXCEPT ![cur[t]] = "live"]
  /\ pc' = [pc EXCEPT ![t] = "idle"]
  /\ cur' = [cur EXCEPT ![t] = 0]
  /\ src' = [src EXCEPT ![t] = 0]
  /\ UNCHANGED <<hstate, block, payload, dtorRuns, releases, strayRelease,
                 zeroReports, zeroBy, lateDeref, nullDeref>>

\* a handle once its destructor has returned: a declared handle is gone for
\* good, the temporary of operator= is there again for the next call
DoneStatus(x) == IF IsTemp(x) THEN "none" ELSE "dead"
\* ~SharedPtr() leaves this->state as it is; the temporary starts afresh
DoneState(x) == IF IsTemp(x) THEN Null ELSE hstate[x]

\* where ~SharedPtr() returns to: operator= has its own return still to make
DonePc(x) == IF IsTemp(x) THEN "asg_ret" ELSE "idle"

\* the running operator= of t, if any, takes note of what this step does to
\* the counts, and of a deref() that returned true or a release it made
Tally(t, zero, released) ==
  asg' = [asg EXCEPT ![t] =
    IF asg[t] = << >> THEN << >>
    ELSE <<[asg[t][1] EXCEPT
              !.delta = [b \in Blocks |-> asg[t][1].delta[b] + ref_count'[b] - ref_count[b]],
              !.zero = @ \/ zero,
              !.released = @ \/ released]>>]

\* ~SharedPtr() of handle x, up to and including deref()
DtorEnter(t, x) ==
  LET b == hstate[x] IN
    IF b = Null
      THEN /\ hstatus' = [hstatus EXCEPT ![x] = DoneStatus(x)]
           /\ hstate' = [hstate EXCEPT ![x] = DoneState(x)]
           /\ pc' = [pc EXCEPT ![t] = DonePc(x)]
           /\ cur' = [cur EXCEPT ![t] = 0]
           /\ UNCHANGED <<ref_count, zeroReports, zeroBy, lateDeref, uaf>>
      ELSE /\ ref_count' = [ref_count EXCEPT ![b] = StateDerefCount(ref_count[b])]
           /\ lateDeref' = [lateDeref EXCEPT ![b] = @ \/ zeroReports[b] > 0]
           /\ uaf' = (uaf \/ block[b] # "live")
           /\ IF StateDeref(ref_count[b])
                THEN /\ zeroReports' = [zeroReports EXCEPT ![b] = @ + 1]
                     /\ zeroBy' = [zeroBy EXCEPT ![b] = t]
                     /\ hstatus' = [hstatus EXCEPT ![x] = "dying"]
                     /\ pc' = [pc EXCEPT ![t] = "dtor_state"]
                     /\ cur' = [cur EXCEPT ![t] = x]
                     /\ UNCHANGED hstate
                ELSE /\ hstatus' = [hstatus EXCEPT ![x] = DoneStatus(x)]
                     /\ hstate' = [hstate EXCEPT ![x] = DoneState(x)]
                     /\ pc' = [pc EXCEPT ![t] = DonePc(x)]
                     /\ cur' = [cur EXCEPT ![t] = 0]
                     /\ UNCHANGED <<zeroReports, zeroBy>>

\* ~SharedPtr() of a declared handle
Drop(t, h) ==
  /\ nullDeref = "no"
  /\ UNCHANGED <<lockVars, atomicVars, uniqueVars>>
  /\ UNCHANGED <<stateBytes, asg>>
  /\ pc[t] = "idle"
  /\ hstatus[h] = "live"
  /\ ~IsTemp(h)
  /\ Free(h)
  /\ DtorEnter(t, h)
  /\ UNCHANGED <<block, payload, src, dtorRuns, releases, strayRelease,
                 nullDeref>>

\* delete this->state, first half: ~SharedPtrState()
StateDtor(t) ==
  /\ nullDeref = "no"
  /\ UNCHANGED <<lockVars, atomicVars, uniqueVars>>
  /\ UNCHANGED stateBytes
  /\ pc[t] = "dtor_state"
  /\ LET b == hstate[cur[t]] IN
       /\ ref_count' = [ref_count EXCEPT ![b] = StateDtorCount(ref_count[b])]
       /\ uaf' = (uaf \/ block[b] # "live")
       /\ IF StateDtorDeletes(ref_count[b])
            THEN /\ payload' = [payload EXCEPT ![b] = "destroyed"]
                 /\ dtorRuns' = [dtorRuns EXCEPT ![b] = @ + 1]
            ELSE UNCHANGED <<payload, dtorRuns>>
  /\ pc' = [pc EXCEPT ![t] = "dtor_free"]
  /\ UNCHANGED <<hstate, hstatus, block, cur, src, releases, strayRelease,
                 zeroReports, zeroBy, lateDeref, nullDeref>>
  /\ Tally(t, FALSE, FALSE)

\* delete this->state, second half: the block's storage goes back to the
\* allocator, and ~SharedPtr() returns
FreeBlock(t) ==
  /\ nullDeref = "no"
  /\ UNCHANGED <<lockVars, atomicVars, uniqueVars>>
  /\ UNCHANGED stateBytes
  /\ pc[t] = "dtor_free"
  /\ LET x == cur[t]
         b == hstate[x]
     IN /\ block' = [block EXCEPT ![b] = "freed"]
        /\ releases' = [releases EXCEPT ![b] = @ + 1]
        /\ strayRelease' = [strayRelease EXCEPT ![b] = @ \/ zeroBy[b] # t]
        /\ zeroBy' = [zeroBy EXCEPT ![b] = 0]
        /\ hstatus' = [hstatus EXCEPT ![x] = DoneStatus(x)]
        /\ hstate' = [hstate EXCEPT ![x] = DoneState(x)]
  /\ pc' = [pc EXCEPT ![t] = DonePc(cur[t])]
  /\ cur' = [cur EXCEPT ![t] = 0]
  /\ UNCHANGED <<ref_count, payload, src, dtorRuns, zeroReports,
                 lateDeref, uaf, nullDeref>>
  /\ Tally(t, FALSE, TRUE)

\* operator=(const SharedPtr& other): SharedPtr temp(other), state{ other.state }
AssignBegin(t, h, g) ==
  /\ nullDeref = "no"
  /\ UNCHANGED <<lockVars, atomicVars, uniqueVars>>
  /\ UNCHANGED stateBytes
  /\ pc[t] = "idle"
  /\ hstatus[h] = "live"
  /\ ~IsTemp(h) /\ ~IsTemp(g)
  /\ Free(h)
  /\ Readable(g)
  /\ hstate' = [hstate EXCEPT ![Temp(t)] = hstate[g]]
  /\ hstatus' = [hstatus EXCEPT ![Temp(t)] = "ctor"]
  /\ pc' = [pc EXCEPT ![t] = "asg_ref"]
  /\ cur' = [cur EXCEPT ![t] = h]
  /\ src' = [src EXCEPT ![t] = g]
  /\ UNCHANGED <<ref_count, block, payload, dtorRuns, releases, strayRelease,
                 zeroReports, zeroBy, lateDeref, uaf, nullDeref>>
  /\ asg' = [asg EXCEPT ![t] = <<[h |-> h, g |-> g, x |-> hstate[h], y |-> hstate[g],
                                  delta |-> [b \in Blocks |-> 0],
                                  zero |-> FALSE, released |-> FALSE]>>]

\* operator=: SharedPtr temp(other), if (state != nullptr) state->ref()
AssignRef(t) ==
  /\ nullDeref = "no"
  /\ UNCHANGED <<lockVars, atomicVars, uniqueVars>>
  /\ UNCHANGED stateBytes
  /\ pc[t] = "asg_ref"
  /\ RefStep(Temp(t))
  /\ hstatus' = [hstatus EXCEPT ![Temp(t)] = "live"]
  /\ pc' = [pc EXCEPT ![t] = "asg_swap"]
  /\ src' = [src EXCEPT ![t] = 0]
  /\ UNCHANGED <<hstate, block, payload, cur, dtorRuns, releases, strayRelease,
                 zeroReports, zeroBy, lateDeref, nullDeref>>
  /\ Tally(t, FALSE, FALSE)

\* operator=: detail::swap(this->state, temp.state)
AssignSwap(t) ==
  /\ nullDeref = "no"
  /\ UNCHANGED <<lockVars, atomicVars, uniqueVars>>
  /\ UNCHANGED <<stateBytes, asg>>
  /\ pc[t] = "asg_swap"
  /\ LET s == Swap(hstate[cur[t]], hstate[Temp(t)]) IN
       hstate' = [hstate EXCEPT ![cur[t]] = s[1], ![Temp(t)] = s[2]]
  /\ pc' = [pc EXCEPT ![t] = "asg_drop"]
  /\ cur' = [cur EXCEPT ![t] = Temp(t)]
  /\ UNCHANGED <<hstatus, ref_count, block, payload, src, dtorRuns, releases,
                 strayRelease, zeroReports, zeroBy, lateDeref, uaf,
                 nullDeref>>

\* operator=: return *this, which runs ~SharedPtr() of temp
AssignDrop(t) ==
  /\ nullDeref = "no"
  /\ UNCHANGED <<lockVars, atomicVars, uniqueVars>>
  /\ UNCHANGED stateBytes
  /\ pc[t] = "asg_drop"
  /\ DtorEnter(t, Temp(t))
  /\ UNCHANGED <<block, payload, src, dtorRuns, releases, strayRelease,
                 nullDeref>>
  /\ Tally(t, pc'[t] = "dtor_state", FALSE)

\* operator= returns to its caller
AssignReturn(t) ==
  /\ nullDeref = "no"
  /\ UNCHANGED <<lockVars, atomicVars, uniqueVars>>
  /\ pc[t] = "asg_ret"
  /\ pc' = [pc EXCEPT ![t] = "idle"]
  /\ asg' = [asg EXCEPT ![t] = << >>]
  /\ UNCHANGED <<hstate, hstatus, ref_count, block, payload, cur, src,
                 dtorRuns, releases, strayRelease, zeroReports, zeroBy,
                 lateDeref, uaf, stateBytes, nullDeref>>

\* get_data(), reached from ptr(), operator-> and operator*: this->state->ptr()
\* with no test of state.  On a null state the read of state->data goes
\* through address 0.
GetData(t, h) ==
  /\ nullDeref = "no"
  /\ UNCHANGED <<lockVars, atomicVars, uniqueVars>>
  /\ UNCHANGED <<stateBytes, asg>>
  /\ pc[t] = "idle"
  /\ Readable(h)
  /\ ~IsTemp(h)
  /\ LET b == hstate[h] IN
       IF b = Null
         THEN /\ nullDeref' = "get_data"
              /\ UNCHANGED uaf
         ELSE /\ uaf' = (uaf \/ block[b] # "live")
              /\ UNCHANGED nullDeref
  /\ UNCHANGED <<hstate, hstatus, ref_count, block, payload, pc, cur, src,
                 dtorRuns, releases, strayRelease, zeroReports, zeroBy, lateDeref>>

NextShared ==
  \/ \E t \in Ctx, h \in Handles, allocated \in BOOLEAN, outcome \in {"null", "fault"} :
       Construct(t, h, allocated, outcome)
  \/ \E t \in Ctx, h \in Handles, g \in Handles : CopyBegin(t, h, g)
  \/ \E t \in Ctx : CopyRef(t)
  \/ \E t \in Ctx, h \in Handles, g \in Handles : AssignBegin(t, h, g)
  \/ \E t \in Ctx : AssignRef(t)
  \/ \E t \in Ctx : AssignSwap(t)
  \/ \E t \in Ctx : AssignDrop(t)
  \/ \E t \in Ctx : AssignReturn(t)
  \/ \E t \in Ctx, h \in Handles : Drop(t, h)
  \/ \E t \in Ctx : StateDtor(t)
  \/ \E t \in Ctx : FreeBlock(t)
  \/ \E t \in Ctx, h \in Handles : GetData(t, h)

\* the same, with handles constructed over a caller-specified size as well
NextSized ==
  \/ NextShared
  \/ \E t \in Ctx, h \in Handles, size \in Sizes, allocated \in BOOLEAN,
        outcome \in {"null", "fault"} :
       ConstructSized(t, h, size, allocated, outcome)

(* ------------------------------ SpinLock ------------------------------ *)

\* lock(): the counter after the call
SpinLockLock(c) == InterlockedDecrement64(c)

\* a lock() that would spin until the counter is zero
LockWaitsUntilFree(c) == c = 0
\* lock(): whether the call goes on to return when the counter is c; the
\* body is the one intrinsic, with no test and no loop
LockProceeds(c) == TRUE

\* a ref() that would add one to the counter
RefAddsOne(c) == InterlockedExchangeAdd64(c, 1)
\* ref(): <<the counter after the call, the returned value>>
SpinLockRef(c) == InterlockedExchangeAdd64(c, 0)

\* unlock(): the counter after the call
SpinLockUnlock(c) == InterlockedIncrement64(c)

InitLock ==
  /\ lock_ref_count = 0
  /\ held = [t \in Ctx |-> 0]
  /\ direct = [t \in Ctx |-> 0]
  /\ gstack = [t \in Ctx |-> << >>]
  /\ lastDead = << >>
  /\ unwind = [t \in Ctx |-> FALSE]
  /\ lockCalls = 0
  /\ unlockCalls = 0
  /\ nullCall = FALSE
  /\ calling = [t \in Ctx |-> FALSE]
  /\ lastRef = << >>

\* lock->lock() on the SpinLock by context t
DoLock(t) ==
  /\ LockProceeds(lock_ref_count)
  /\ lock_ref_count' = SpinLockLock(lock_ref_count)
  /\ held' = [held EXCEPT ![t] = @ + 1]
  /\ lockCalls' = lockCalls + 1

\* lock->unlock() on the SpinLock by context t
DoUnlock(t) ==
  /\ lock_ref_count' = SpinLockUnlock(lock_ref_count)
  /\ held' = [held EXCEPT ![t] = @ - 1]
  /\ unlockCalls' = unlockCalls + 1

\* SpinLock::lock() called by t itself
Lock(t) ==
  /\ nullDeref = "no"
  /\ UNCHANGED <<sharedVars, atomicVars, uniqueVars>>
  /\ ~unwind[t]
  /\ lockCalls < MaxLockCalls
  /\ DoLock(t)
  /\ direct' = [direct EXCEPT ![t] = @ + 1]
  /\ calling' = [calling EXCEPT ![t] = FALSE]
  /\ UNCHANGED <<gstack, lastDead, unwind, unlockCalls, nullCall, nullDeref, lastRef>>

\* t calls SpinLock::lock(); Lock(t) is the call's body and its return
LockCall(t) ==
  /\ nullDeref = "no"
  /\ UNCHANGED <<sharedVars, atomicVars, uniqueVars>>
  /\ ~unwind[t]
  /\ ~calling[t]
  /\ lockCalls + Cardinality({u \in Ctx : calling[u]}) < MaxLockCalls
  /\ calling' = [calling EXCEPT ![t] = TRUE]
  /\ UNCHANGED <<lock_ref_count, held, direct, gstack, lastDead, unwind,
                 lockCalls, unlockCalls, nullCall, nullDeref, lastRef>>

\* the lock() that t has called runs and returns
LockReturn(t) == calling[t] /\ Lock(t)

\* SpinLock::unlock() called by t itself, for a lock() of its own
Unlock(t) ==
  /\ nullDeref = "no"
  /\ UNCHANGED <<sharedVars, atomicVars, uniqueVars>>
  /\ ~unwind[t]
  /\ ~calling[t]
  /\ direct[t] > 0
  /\ DoUnlock(t)
  /\ direct' = [direct EXCEPT ![t] = @ - 1]
  /\ UNCHANGED <<gstack, lastDead, unwind, lockCalls, nullCall, nullDeref,
                 calling, lastRef>>

\* SpinLock::ref() called by t
Ref(t) ==
  /\ nullDeref = "no"
  /\ UNCHANGED <<sharedVars, atomicVars, uniqueVars>>
  /\ ~calling[t]
  /\ lock_ref_count' = SpinLockRef(lock_ref_count)[1]
  /\ lastRef' = <<SpinLockRef(lock_ref_count)[2]>>
  /\ UNCHANGED <<held, direct, gstack, lastDead, unwind, lockCalls,
                 unlockCalls, nullCall, nullDeref, calling>>

(* ----------------------------- ScopedLock ----------------------------- *)

\* a ScopedLock: its lock member, and the calls it has made through it
Guard(l, nl, nu) == [lock |-> l, locks |-> nl, unlocks |-> nu]

\* ScopedLock(Lock* lock): this->lock->lock(), whatever lock is
GuardCtorCalls(l) == TRUE

\* a destructor that never releases
GuardDtorNever(l) == FALSE
\* ~ScopedLock(): if (this->lock) this->lock->unlock()
GuardDtorCalls(l) == l # Null

\* ScopedLock(Lock* lock).  With a null lock the virtual call goes through
\* address 0: it faults, or it comes back having done nothing.
GuardCtor(t, l, outcome) ==
  /\ nullDeref = "no"
  /\ UNCHANGED <<sharedVars, atomicVars, uniqueVars>>
  /\ ~unwind[t]
  /\ Len(gstack[t]) < MaxNest
  /\ IF ~GuardCtorCalls(l)
       THEN /\ outcome = "returns"
            /\ gstack' = [gstack EXCEPT ![t] = Append(@, Guard(l, 0, 0))]
            /\ UNCHANGED <<lock_ref_count, held, lockCalls, nullCall, nullDeref>>
       ELSE IF l = Null
         THEN /\ nullCall' = TRUE
              /\ nullDeref' = IF outcome = "fault" THEN "ScopedLock" ELSE nullDeref
              /\ gstack' = IF outcome = "fault" THEN gstack
                           ELSE [gstack EXCEPT ![t] = Append(@, Guard(l, 0, 0))]
              /\ UNCHANGED <<lock_ref_count, held, lockCalls>>
         ELSE /\ outcome = "returns"
              /\ lockCalls < MaxLockCalls
              /\ DoLock(t)
              /\ gstack' = [gstack EXCEPT ![t] = Append(@, Guard(l, 1, 0))]
              /\ UNCHANGED <<nullCall, nullDeref>>
  /\ UNCHANGED <<direct, lastDead, unwind, unlockCalls, calling, lastRef>>

\* ~ScopedLock() of t's innermost guard
GuardDtor(t) ==
  LET g == gstack[t][Len(gstack[t])] IN
    /\ gstack' = [gstack EXCEPT ![t] = SubSeq(@, 1, Len(@) - 1)]
    /\ IF GuardDtorCalls(g.lock)
         THEN IF g.lock = Null
           THEN /\ nullCall' = TRUE
                /\ nullDeref' = "~ScopedLock"
                /\ lastDead' = <<g>>
                /\ UNCHANGED <<lock_ref_count, held, unlockCalls>>
           ELSE /\ DoUnlock(t)
                /\ lastDead' = <<Guard(g.lock, g.locks, g.unlocks + 1)>>
                /\ UNCHANGED <<nullCall, nullDeref>>
         ELSE /\ lastDead' = <<g>>
              /\ UNCHANGED <<lock_ref_count, held, unlockCalls, nullCall, nullDeref>>

\* the guarded scope ends: by falling off its end, or by an early return or
\* a failure handed to the caller, which leave every enclosing scope too
ExitScope(t, how) ==
  /\ nullDeref = "no"
  /\ UNCHANGED <<sharedVars, atomicVars, uniqueVars>>
  /\ ~unwind[t]
  /\ gstack[t] # << >>
  /\ GuardDtor(t)
  /\ unwind' = [unwind EXCEPT ![t] = (how # "end" /\ Len(gstack[t]) > 1)]
  /\ UNCHANGED <<direct, lockCalls, calling, lastRef>>

\* the next enclosing scope is left on the way out
Unwind(t) ==
  /\ nullDeref = "no"
  /\ UNCHANGED <<sharedVars, atomicVars, uniqueVars>>
  /\ unwind[t]
  /\ GuardDtor(t)
  /\ unwind' = [unwind EXCEPT ![t] = Len(gstack[t]) > 1]
  /\ UNCHANGED <<direct, lockCalls, calling, lastRef>>

NextLock ==
  \/ \E t \in Ctx : Lock(t)
  \/ \E t \in Ctx : Unlock(t)
  \/ \E t \in Ctx, l \in {Null, TheLock}, outcome \in {"returns", "fault"} :
       GuardCtor(t, l, outcome)
  \/ \E t \in Ctx, how \in {"end", "return", "failure"} : ExitScope(t, how)
  \/ \E t \in Ctx : Unwind(t)

\* the calls on one SpinLock made by the contexts themselves
NextSpin ==
  \/ \E t \in Ctx : LockCall(t)
  \/ \E t \in Ctx : LockReturn(t)
  \/ \E t \in Ctx : Unlock(t)
  \/ \E t \in Ctx : Ref(t)

(* ------------------------------- Atomic ------------------------------- *)

\* _InterlockedCompareExchangePointer(Destination, Exchange, Comparand) on a
\* destination holding d: <<the value it holds afterwards, the returned value>>
InterlockedCompareExchangePointer(d, xchg, cmp) ==
  <<IF d = cmp THEN xchg ELSE d, d>>

\* exchange(p): the intrinsic with Exchange = &this->data, Comparand = p
AtomicExchange(d, p) == InterlockedCompareExchangePointer(d, SlotAddr, p)

\* a load() whose intrinsic would be given nullptr as its Exchange operand
LoadStoresNull(d) == InterlockedCompareExchangePointer(d, Null, SlotAddr)
\* load(): the intrinsic with Exchange = Comparand = &this->data
AtomicLoad(d) == InterlockedCompareExchangePointer(d, SlotAddr, SlotAddr)

\* Atomic() : data{ nullptr } with v = Null, or Atomic(T* data) : data{ data }
InitAtomic(v) ==
  /\ initial = v
  /\ data = initial
  /\ exchanged = {}
  /\ lastXchg = << >>
  /\ lastLoad = [t \in Ctx |-> << >>]
  /\ loadAfter = [t \in Ctx |-> << >>]

\* exchange(T* p)
Exchange(t, p) ==
  /\ data' = AtomicExchange(data, p)[1]
  /\ exchanged' = exchanged \cup {p}
  /\ lastXchg' = <<p>>
  /\ UNCHANGED <<initial, lastLoad, loadAfter>>
  /\ UNCHANGED <<sharedVars, nullDeref, lockVars, uniqueVars>>

\* load(), and operator-> which returns this->load()
Load(t) ==
  /\ data' = AtomicLoad(data)[1]
  /\ lastLoad' = [lastLoad EXCEPT ![t] = <<AtomicLoad(data)[2]>>]
  /\ loadAfter' = [loadAfter EXCEPT ![t] = lastXchg]
  /\ UNCHANGED <<initial, exchanged, lastXchg>>
  /\ UNCHANGED <<sharedVars, nullDeref, lockVars, uniqueVars>>

NextAtomic ==
  \/ \E t \in Ctx, p \in Ptrs : Exchange(t, p)
  \/ \E t \in Ctx : Load(t)

(* ------------------------------ UniquePtr ----------------------------- *)

\* T is given by its extent and the size of its element: extent 0 is a T
\* that is no array, extent K >= 1 is ElementType[K]
Extents == 0..MaxExtent
ElemSizes == 1..MaxElemSize

\* detail::is_array_v<T>
IsArray(extent) == extent >= 1

\* sizeof(T)
SizeofT(extent, esize) == IF IsArray(extent) THEN esize * extent ELSE esize

\* the bytes an array new-expression puts before the first element to hold
\* the element count that delete[] reads
ArrayCookie == 8

\* the values of an ElementType*: nullptr, or a pointer into the object's
\* allocation: "base" is the address the
\* allocator returned, "first" the first element behind an array cookie,
\* "before" the address an array cookie would have in front of "base"
Nullptr == "nullptr"
Base == "base"
First == "first"
Before == "before"

\* `new (size, paged) X` for an X that is no array: the allocation function
\* gets sizeof(X) and size, one X is constructed, at the address returned
NewSingle(sizeofX, size) ==
  [bytes |-> Allocate(sizeofX, size), needs |-> sizeofX, made |-> 1,
   form |-> "single", data |-> Base]

\* `new (size, paged) X` for X = ElementType[K]: an array new-expression,
\* which constructs K elements behind a cookie
NewArray(extent, esize, size) ==
  [bytes |-> Allocate(esize * extent + ArrayCookie, size),
   needs |-> esize * extent + ArrayCookie, made |-> extent,
   form |-> "array", data |-> First]

\* UniquePtr(const bool&& paged): the new-expression it evaluates
NewTyped(extent, esize) ==
  LET Size == esize * extent IN
    IF IsArray(extent)
      THEN NewSingle(esize, Size)
      ELSE NewSingle(SizeofT(extent, esize), SizeofT(extent, esize))

\* UniquePtr(const size_t&& size, const bool&& paged): new (size, paged) T
NewSizedT(extent, esize, size) ==
  IF IsArray(extent)
    THEN NewArray(extent, esize, size)
    ELSE NewSingle(SizeofT(extent, esize), size)

InitUnique ==
  uq = [status |-> "none", extent |-> 0, esize |-> 1, mode |-> "none",
        form |-> "none", data |-> Nullptr, origin |-> Nullptr, bytes |-> 0,
        made |-> 0, unmade |-> 0, allocs |-> 0, frees |-> 0,
        freed |-> << >>, got |-> << >>]

\* a constructor of UniquePtr<T> evaluating the new-expression n.  The
\* allocator returns storage or nullptr; on nullptr the new-expression yields
\* nullptr or constructs at address 0, depending on the allocation function's
\* declaration.  Storage of fewer bytes than the payload needs is overrun.
UniqueCtor(extent, esize, mode, n, allocated, outcome) ==
  /\ nullDeref = "no"
  /\ UNCHANGED <<sharedVars, lockVars, atomicVars>>
  /\ uq.status = "none"
  /\ IF allocated
       THEN /\ outcome = "null"
            /\ IF n.bytes < n.needs
                 THEN /\ nullDeref' = "UniquePtr overrun"
                      /\ uq' = [uq EXCEPT !.extent = extent, !.esize = esize,
                                          !.mode = mode, !.bytes = n.bytes,
                                          !.allocs = 1]
                 ELSE /\ uq' = [uq EXCEPT !.status = "live", !.extent = extent,
                                          !.esize = esize, !.mode = mode,
                                          !.form = n.form, !.data = n.data,
                                          !.origin = n.data, !.bytes = n.bytes,
                                          !.made = n.made, !.allocs = 1]
                      /\ UNCHANGED nullDeref
       ELSE IF outcome = "null"
         THEN /\ uq' = [uq EXCEPT !.status = "live", !.extent = extent,
                                  !.esize = esize, !.mode = mode,
                                  !.form = n.form]
              /\ UNCHANGED nullDeref
         ELSE /\ nullDeref' = "UniquePtr"
              /\ UNCHANGED uq

\* UniquePtr(const bool&& paged)
UniqueTyped(extent, esize, allocated, outcome) ==
  UniqueCtor(extent, esize, "typed", NewTyped(extent, esize), allocated, outcome)

\* UniquePtr(const size_t&& size, const bool&& paged)
UniqueSized(extent, esize, size, allocated, outcome) ==
  UniqueCtor(extent, esize, "sized", NewSizedT(extent, esize, size), allocated, outcome)

\* ptr(), operator->() and operator*(): they return this->data; operator*
\* reads through it
UniqueGet(op) ==
  /\ nullDeref = "no"
  /\ UNCHANGED <<sharedVars, lockVars, atomicVars>>
  /\ uq.status = "live"
  /\ IF op = "*" /\ uq.data = Nullptr
       THEN /\ nullDeref' = "UniquePtr::operator*"
            /\ UNCHANGED uq
       ELSE /\ uq' = [uq EXCEPT !.got = <<uq.data>>]
            /\ UNCHANGED nullDeref

\* ~UniquePtr(): delete[] this->data for an array T, delete this->data
\* otherwise; both do nothing on nullptr.  delete[] on what an array
\* new-expression yielded runs the destructors of the elements counted in the
\* cookie and releases the allocation.  delete[] on what a non-array
\* new-expression yielded is undefined: it reads an element count that was
\* never written, runs that many destructors (count), and releases the
\* pointer itself or the address where the cookie would start (at); or it
\* faults.
UniqueDtor(count, at, outcome) ==
  /\ nullDeref = "no"
  /\ UNCHANGED <<sharedVars, lockVars, atomicVars>>
  /\ uq.status = "live"
  /\ IF uq.data = Nullptr
       THEN /\ count = 0 /\ at = Base /\ outcome = "returns"
            /\ uq' = [uq EXCEPT !.status = "dead"]
            /\ UNCHANGED nullDeref
       ELSE IF IsArray(uq.extent)
         THEN IF uq.form = "array"
           THEN /\ count = uq.extent /\ at = Base /\ outcome = "returns"
                /\ uq' = [uq EXCEPT !.status = "dead", !.unmade = count,
                                    !.frees = @ + 1, !.freed = <<at>>]
                /\ UNCHANGED nullDeref
           ELSE IF outcome = "fault"
             THEN /\ count = 0 /\ at = Base
                  /\ nullDeref' = "~UniquePtr"
                  /\ UNCHANGED uq
             ELSE /\ uq' = [uq EXCEPT !.status = "dead", !.unmade = count,
                                      !.frees = @ + 1, !.freed = <<at>>]
                  /\ UNCHANGED nullDeref
         ELSE /\ count = 1 /\ at = Base /\ outcome = "returns"
              /\ uq' = [uq EXCEPT !.status = "dead", !.unmade = count,
                                  !.frees = @ + 1, !.freed = <<at>>]
              /\ UNCHANGED nullDeref

NextUnique ==
  \/ \E extent \in Extents, esize \in ElemSizes, allocated \in BOOLEAN,
        outcome \in {"null", "fault"} :
       UniqueTyped(extent, esize, allocated, outcome)
  \/ \E extent \in Extents, esize \in ElemSizes, size \in Sizes,
        allocated \in BOOLEAN, outcome \in {"null", "fault"} :
       UniqueSized(extent, esize, size, allocated, outcome)
  \/ \E op \in {"ptr", "->", "*"} : UniqueGet(op)
  \/ \E count \in 0..(MaxExtent + 1), at \in {Base, Before},
        outcome \in {"returns", "fault"} :
       UniqueDtor(count, at, outcome)

(* --------------------------- specifications --------------------------- *)

\* the state after construction: no handle declared yet, the SpinLock
\* constructed, the Atomic default-constructed
Init ==
  /\ InitShared
  /\ nullDeref = "no"
  /\ InitLock
  /\ InitAtomic(Null)
  /\ InitUnique

\* the same, with the Atomic constructed over any pointer
InitAnyAtomic ==
  /\ InitShared
  /\ nullDeref = "no"
  /\ InitLock
  /\ \E v \in Ptrs : InitAtomic(v)
  /\ InitUnique

Next == NextShared

Spec == Init /\ [][Next]_vars

SpecLock == Init /\ [][NextLock]_vars

SpecAtomic == InitAnyAtomic /\ [][NextAtomic]_vars

SpecSized == Init /\ [][NextSized]_vars

SpecUnique == Init /\ [][NextUnique]_vars

\* every context is scheduled again and again: a lock() that has been called
\* and can go on does go on
SpecSpin == Init /\ [][NextSpin]_vars /\ \A t \in Ctx : WF_vars(LockReturn(t))

(* ------------------------------- claims ------------------------------- *)

\* handles that refer to block b and are under construction, constructed,
\* or inside their destructor
Holders(b) == {h \in AllHandles : hstate[h] = b /\ hstatus[h] \in {"ctor", "live", "dying"}}

\* handles that referred to block b and whose destructor has returned
Dropped(b) == {h \in Handles : hstate[h] = b /\ hstatus[h] = "dead"}

\* block b was handed out and every handle on it has been dropped
AllDropped(b) == block[b] # "unalloc" /\ Holders(b) = {}

\* C1: once every handle on a control block has been dropped the payload's
\* destructor has run exactly once, and it has not run while a constructed
\* handle is still there (after construct A, copy A into B, drop A the
\* payload is alive; B's drop destroys it).
C1_PayloadDestroyedOnceAtLastDrop ==
  \A b \in Blocks :
    /\ AllDropped(b) => dtorRuns[b] = 1 /\ payload[b] = "destroyed"
    /\ (\E h \in Holders(b) : hstatus[h] = "live") => dtorRuns[b] = 0 /\ payload[b] = "alive"

\* C2: while a fully constructed, not yet destroyed SharedPtr refers to a
\* control block, the payload is not destroyed and the block's storage is not
\* released, and no member function has touched released storage.
C2_LiveHandleKeepsBlock ==
  /\ ~uaf
  /\ \A h \in AllHandles :
       hstatus[h] = "live" /\ hstate[h] # Null =>
         block[hstate[h]] = "live" /\ payload[hstate[h]] = "alive"

\* a handle is live on a block that another handle has already been dropped from
C2_Witness ==
  \E h \in Handles : hstatus[h] = "live" /\ hstate[h] # Null /\ Dropped(hstate[h]) # {}

\* C3: on every control block deref() returns true to at most one caller,
\* that caller made the last decrement (no deref() follows and no handle is
\* left), the storage is released at most once and only by that caller, and
\* once all handles are dropped both have happened exactly once.
C3_ZeroReportedToOneCaller ==
  \A b \in Blocks :
    /\ zeroReports[b] <= 1
    /\ releases[b] <= 1
    /\ ~lateDeref[b]
    /\ ~strayRelease[b]
    /\ releases[b] = 1 => zeroReports[b] = 1
    /\ zeroReports[b] = 1 => \A h \in Holders(b) : hstatus[h] = "dying"
    /\ zeroReports[b] = 1 /\ block[b] = "live" => zeroBy[b] \in Ctx /\ pc[zeroBy[b]] \in {"dtor_state", "dtor_free"}
    /\ AllDropped(b) => zeroReports[b] = 1 /\ releases[b] = 1

\* two handles of one block have been dropped and the block is released
C3_Witness ==
  \E b \in Blocks : AllDropped(b) /\ Cardinality(Dropped(b)) >= 2 /\ releases[b] = 1

\* C4: the reference count of a control block is never negative up to the
\* release of the block's storage.
C4_CountNeverNegative ==
  \A b \in Blocks : block[b] = "live" => ref_count[b] >= 0

\* contexts between the return of a lock() of theirs and the matching unlock()
InCriticalSection == {t \in Ctx : held[t] > 0}

\* C5: at most one context at a time is between the return of its lock() and
\* its call to unlock() on the same SpinLock.
C5_MutualExclusion == Cardinality(InCriticalSection) <= 1

\* the values a load() may return: the one the Atomic was constructed with and
\* those passed to exchange()
Published == {initial} \cup exchanged

\* C6: every load() returns the value the slot was constructed with or a
\* value that was passed to an exchange(), never any other pointer.
C6_LoadReturnsPublishedValue ==
  \A t \in Ctx : lastLoad[t] # << >> => lastLoad[t][1] \in Published

\* C7: a load() that follows exchange(newValue), with no other exchange() in
\* between, returns newValue, whatever the slot held before.
C7_LoadReturnsExchangedValue ==
  \A t \in Ctx : lastLoad[t] # << >> /\ loadAfter[t] # << >> => lastLoad[t] = loadAfter[t]

RECURSIVE SumOver(_, _)
\* the sum of f[x] over the x in S
SumOver(f, S) ==
  IF S = {} THEN 0
  ELSE LET x == CHOOSE y \in S : TRUE IN f[x] + SumOver(f, S \ {x})

\* the number of t's live guards over a non-null lock
LiveGuards(t) == Cardinality({i \in 1..Len(gstack[t]) : gstack[t][i].lock # Null})

\* C8: a ScopedLock over a non-null Lock has called lock() exactly once from
\* its construction on and unlock() not at all while it lives; destroyed, on
\* whatever way its scope was left, it has called each exactly once; the
\* lock() calls outnumber the unlock() calls by the live guards and the direct
\* holds, so they are equal once all guards are destroyed.
C8_GuardBalanced ==
  /\ \A t \in Ctx : \A i \in 1..Len(gstack[t]) :
       gstack[t][i].lock # Null => gstack[t][i].locks = 1 /\ gstack[t][i].unlocks = 0
  /\ lastDead # << >> /\ lastDead[1].lock # Null =>
       lastDead[1].locks = 1 /\ lastDead[1].unlocks = 1
  /\ unlockCalls <= lockCalls
  /\ lockCalls - unlockCalls =
       SumOver(direct, Ctx) + SumOver([t \in Ctx |-> LiveGuards(t)], Ctx)

\* an early return or failure is leaving nested scopes and has destroyed the
\* innermost guard, with a guard of an enclosing scope still to go
C8_Witness ==
  \E t \in Ctx :
    /\ unwind[t]
    /\ LiveGuards(t) >= 1
    /\ lastDead = <<Guard(TheLock, 1, 1)>>

\* C9: a ScopedLock over a null lock invokes nothing through the null pointer,
\* neither when constructed nor when destroyed, and a destroyed guard has
\* called unlock() exactly as often as it had called lock().
C9_NullGuardCallsNothing ==
  /\ ~nullCall
  /\ lastDead # << >> => lastDead[1].unlocks = lastDead[1].locks

\* C10: no operation on a SharedPtr whose state is null dereferences it:
\* ptr(), operator-> and operator* do not go through the null block.
C10_NullHandleNotDereferenced == nullDeref # "get_data"

\* C11: a UniquePtr over ElementType[K] made by the type-sized constructor
\* has K elements constructed in K * sizeof(ElementType) allocated bytes,
\* and once destroyed has run K element destructors, as many as were
\* constructed, and has released that allocation.
C11_ArrayElementsMadeAndUnmade ==
  uq.status \in {"live", "dead"} /\ IsArray(uq.extent) /\ uq.mode = "typed"
    /\ uq.data # Nullptr =>
    /\ uq.made = uq.extent
    /\ uq.bytes = uq.extent * uq.esize
    /\ uq.status = "dead" =>
         uq.unmade = uq.extent /\ uq.unmade = uq.made /\ uq.freed = <<Base>>

\* C12: a UniquePtr that got storage has made one allocation and, until it
\* is destroyed, no release; destroyed, it has made exactly one release, of
\* the address the allocator returned; its accessors return the owned
\* pointer, which is the one it was constructed with.
C12_OneAllocationOneRelease ==
  uq.status \in {"live", "dead"} /\ uq.origin # Nullptr =>
    /\ uq.allocs = 1
    /\ uq.data = uq.origin
    /\ uq.got # << >> => uq.got[1] = uq.origin
    /\ uq.status = "live" => uq.frees = 0
    /\ uq.status = "dead" => uq.frees = 1 /\ uq.freed = <<Base>>

\* handles that refer to block b, are fully constructed, and whose destructor
\* has not started
LiveOn(b) == {h \in AllHandles : hstate[h] = b /\ hstatus[h] = "live"}

\* no copy onto block b and no drop from it is in progress
Quiescent(b) == \A h \in AllHandles : hstate[h] = b => hstatus[h] \notin {"ctor", "dying"}

\* C13: while a control block's storage is there its count is at least the
\* number of fully constructed handles on it whose destructor has not
\* started (a copy counts only once its increment is made), it is at least 1
\* until a deref() has reported zero, and it equals that number whenever no
\* copy or drop on the block is in progress (construct A, copy B, drop A:
\* 1, 2, 1).
C13_CountCoversLiveHandles ==
  \A b \in Blocks : block[b] = "live" =>
    /\ ref_count[b] >= Cardinality(LiveOn(b))
    /\ zeroReports[b] = 0 => ref_count[b] >= 1
    /\ Quiescent(b) => ref_count[b] = Cardinality(LiveOn(b))

\* C14: when h = h returns, h refers to the block it referred to, the
\* assignment has changed no block's count on balance, its deref() did not
\* return true, and neither the payload nor the block is destroyed or
\* released, whatever the count was, 1 included.
C14_SelfAssignLeavesHandle ==
  \A t \in Ctx :
    pc[t] = "asg_ret" /\ asg[t][1].g = asg[t][1].h /\ asg[t][1].x # Null =>
      LET r == asg[t][1] IN
        /\ hstate[r.h] = r.x /\ hstatus[r.h] = "live"
        /\ \A b \in Blocks : r.delta[b] = 0
        /\ ~r.zero /\ ~r.released
        /\ ref_count[r.x] >= 1
        /\ block[r.x] = "live" /\ releases[r.x] = 0
        /\ payload[r.x] = "alive" /\ dtorRuns[r.x] = 0

\* h = h is about to return on the only handle of its block, the count 1
C14_Witness ==
  \E t \in Ctx :
    /\ pc[t] = "asg_ret" /\ asg[t][1].g = asg[t][1].h /\ asg[t][1].x # Null
    /\ Cardinality(LiveOn(asg[t][1].x)) = 1
    /\ ref_count[asg[t][1].x] = 1

\* C15: a lock() that has been called returns, whoever holds the SpinLock and
\* whether or not they ever unlock: the call has one outcome and no state
\* keeps it from going on.
C15_LockReturns == \A t \in Ctx : calling[t] ~> ~calling[t]

\* every context's lock() has returned while the others hold the SpinLock
C15_Witness ==
  /\ Cardinality(Ctx) >= 2
  /\ \A t \in Ctx : direct[t] > 0 /\ ~calling[t]

\* C16: when a = b returns, with a on block X and b on another block Y when
\* it was called, a refers to Y and b still does, the assignment has raised
\* Y's count by one and lowered X's by one and changed no other block's, X
\* is released by it exactly when its decrement reached zero, and at no time
\* has it lowered X's count without having raised Y's.
C16_AssignMovesOneReference ==
  \A t \in Ctx :
    asg[t] # << >> /\ asg[t][1].x # Null /\ asg[t][1].y # Null
      /\ asg[t][1].x # asg[t][1].y =>
      LET r == asg[t][1] IN
        /\ r.delta[r.x] # 0 => r.delta[r.y] = 1
        /\ pc[t] = "asg_ret" =>
             /\ hstate[r.h] = r.y /\ hstate[r.g] = r.y
             /\ r.delta[r.y] = 1
             /\ r.delta[r.x] = 0 - 1
             /\ \A b \in Blocks \ {r.x, r.y} : r.delta[b] = 0
             /\ r.released <=> r.zero
             /\ r.released => block[r.x] = "freed"

\* C17: the storage of every control block was asked of the allocator with
\* at least sizeof(State) bytes, whichever constructor made it and whatever
\* size the caller passed.
C17_StateRequestCoversState ==
  \A b \in Blocks : block[b] # "unalloc" => stateBytes[b] >= SizeofState

\* C18: load(), and operator-> through it, leaves the stored pointer as it
\* was and returns it, whatever the slot holds, its own address included; so
\* loads with no exchange() between them all return the same value.
C18_LoadLeavesSlot ==
  [][\A t \in Ctx : Load(t) => data' = data /\ lastLoad'[t] = <<data>>]_vars

\* the slot holds its own address and every context has loaded that value
C18_Witness ==
  data = SlotAddr /\ \A t \in Ctx : lastLoad[t] = <<SlotAddr>>

\* C19: in every state the SpinLock's counter is the unlock() calls completed
\* less the lock() calls completed, so it is 0 when they match, and ref()
\* returns the counter and leaves it as it was.
C19_CounterIsUnlocksLessLocks ==
  [][/\ lock_ref_count' = unlockCalls' - lockCalls'
     /\ lockCalls' = unlockCalls' => lock_ref_count' = 0
     /\ \A t \in Ctx : Ref(t) =>
          lock_ref_count' = lock_ref_count /\ lastRef' = <<lock_ref_count>>]_vars

\* after lock() and unlock() calls a ref() returned the counter, then -2, and
\* left it there
C19_Witness ==
  lastRef = <<0 - 2>> /\ lock_ref_count = 0 - 2 /\ unlockCalls > 0

====
